---- MODULE Spec2Model ----
(***************************************************************************)
(* A model of fetchVideo, the chunked download orchestrator of             *)
(* uprotect-fetch, with the HTTP helpers it calls (postWithCookies,        *)
(* getBinaryDataWithCookies, getCookies, convertToMkv).                    *)
(*                                                                         *)
(* Times are epoch milliseconds.  One action is one run-to-completion      *)
(* segment of the JavaScript code: the synchronous code between two        *)
(* awaits, or one event handler.                                           *)
(*                                                                         *)
(* Spec is one call of fetchVideo; SpecFair adds weak fairness of its      *)
(* steps.  SpecRerun follows a call with a second call on the same         *)
(* directory, SpecTwo runs a second call beside the first.  SpecMerge and  *)
(* SpecThroughput apply the cookie merge and the throughput report to      *)
(* inputs of their own.                                                    *)
(***************************************************************************)
EXTENDS Integers, Sequences, FiniteSets, TLC

VARIABLES
    args,          \* the argument object of fetchVideo
    pc,            \* position of the fetchVideo call
    outputFiles,   \* const outputFiles (line 263)
    currentStart,  \* let currentStart (line 265)
    currentEnd,    \* let currentEnd (line 273)
    camIdx,        \* index of the for-of iterator over args.cameras (line 281)
    chunk,         \* camera, url and file names of the pair being processed
    cookies,       \* const cookies (line 313)
    req,           \* the axios request in flight and its axios-retry state
    fs,            \* the file system: file name -> [size, by]
    server,        \* the appliance: number of sessions it has issued
    events,        \* status events delivered to args.statusCallback, in order
    built,         \* history: every (camera, window) pair the loops reached
    netCalls,      \* history: the requests issued, as [pair, kind]
    received,      \* history: pieces of body received during the call
    failure,       \* the error fetchVideo rejected with ("none" while running)
    given,         \* history: the arguments and the file system at the call
    prior,         \* history: what an earlier call with the same arguments did
    peer,          \* a second fetchVideo call at work in the same directory
    probe          \* a helper function called on its own: input and output

vars == <<args, pc, outputFiles, currentStart, currentEnd, camIdx, chunk,
          cookies, req, fs, server, events, built, netCalls, received,
          failure, given, prior, peer, probe>>

\* what a call of fetchVideo neither reads nor writes
aside == <<prior, peer, probe>>

-----------------------------------------------------------------------------
(* Bounds of the model *)

\* the requested range spans at most this many whole hours (plus a remainder)
MaxHours == 2

\* the appliance sends at most this many pieces of body during one call
MaxData == 1

-----------------------------------------------------------------------------
(* Values *)

Undefined == "undefined"

\* maxMinuteDiff = { minutes: 60 }
maxMinuteDiff == 60

\* axiosRetry(axios, { retries: 3, ... })
retries == 3

MsPerMinute == 60000

MsPerSecond == 1000

EmptyJar == <<>>

\* cameras the caller may pass: one with a display name, one without
CameraPool ==
    { [id |-> "cam1", name |-> "Front"], [id |-> "cam2", name |-> Undefined] }

\* the camera lists the caller may pass: none, one or two cameras
CameraLists ==
    { <<>> } \cup { <<c>> : c \in CameraPool }
             \cup { <<[id |-> "cam1", name |-> "Front"],
                      [id |-> "cam2", name |-> Undefined]>> }

\* start of the requested range, half a second past a whole second (the
\* code reads the start only through differences and through formatDate)
StartTimes == {500}

\* length of the requested range: whole hours plus nothing, half a minute
\* or half an hour
Remainders == {0, 30 * MsPerSecond, 30 * MsPerMinute}

Spans == { h * 60 * MsPerMinute + r : h \in 0..MaxHours, r \in Remainders }

Mp4Args == {"true", "false", Undefined}

-----------------------------------------------------------------------------
(* date-fns helpers, as fetchVideo uses them *)

Trunc(x, d) == IF x >= 0 THEN x \div d ELSE -((-x) \div d)

\* isBefore(a, b)
isBefore(a, b) == a < b

\* differenceInMinutes(left, right): whole minutes, truncated toward zero
differenceInMinutes(left, right) == Trunc(left - right, MsPerMinute)

\* add(date, { minutes: m })
add(date, minutes) == date + minutes * MsPerMinute

\* format(date, 'yyyy-MM-dd hh:mm:ss aa'): the date to the second; the
\* milliseconds are dropped
formatDate(date) == date \div MsPerSecond

\* camera.name ?? camera.id
Label(camera) == IF camera.name = Undefined THEN camera.id ELSE camera.name

\* if (diffInMinutes > maxMinuteDiff.minutes) currentEnd = add(...)
\* else currentEnd = args.end
WindowEnd(start, end) ==
    IF differenceInMinutes(end, start) > maxMinuteDiff
    THEN add(start, maxMinuteDiff)
    ELSE end

\* the url of the export request (lines 282-286)
ExportUrl(camera, start, end) ==
    [camera |-> camera.id, start |-> start, end |-> end]

\* `${formattedStart}_${formattedEnd}_${label}` plus the extension
FileName(camera, start, end, ext) ==
    [start |-> formatDate(start), end |-> formatDate(end),
     label |-> Label(camera), ext |-> ext]

-----------------------------------------------------------------------------
(* Cookies.  A header value is a sequence of tokens; ";" and "=" are the   *)
(* separator tokens and " " is white space.  A jar maps a name to a value. *)

RECURSIVE Split(_, _)
\* String.prototype.split: the pieces of s between occurrences of sep
Split(s, sep) ==
    IF \A i \in 1..Len(s) : s[i] # sep
    THEN <<s>>
    ELSE LET i == CHOOSE k \in 1..Len(s) :
                      s[k] = sep /\ \A j \in 1..(k - 1) : s[j] # sep
         IN <<SubSeq(s, 1, i - 1)>> \o Split(SubSeq(s, i + 1, Len(s)), sep)

RECURSIVE Trim(_)
\* String.prototype.trim
Trim(s) ==
    IF s = <<>> THEN s
    ELSE IF Head(s) = " " THEN Trim(Tail(s))
    ELSE IF s[Len(s)] = " " THEN Trim(SubSeq(s, 1, Len(s) - 1))
    ELSE s

\* safeUpdateCookie(cookie, updatedCookies): the jar after the call
safeUpdateCookie(cookie, jar) ==
    LET splitCookie == Split(cookie, ";")
        kv == Split(splitCookie[1], "=")
    IN IF Len(splitCookie) # 1 THEN jar
       ELSE IF Len(kv) < 2 THEN jar
       ELSE (Trim(kv[1]) :> Trim(kv[2])) @@ jar

RECURSIVE MergeCookies(_, _)
\* const updatedCookies = { ...cookies }; setCookieHeader.forEach(...)
MergeCookies(jar, headerValues) ==
    IF headerValues = <<>> THEN jar
    ELSE MergeCookies(safeUpdateCookie(Head(headerValues), jar),
                      Tail(headerValues))

\* the updatedCookies of a response: the jar when it has no Set-Cookie header
UpdatedCookies(jar, response) ==
    IF response.setCookie.present
    THEN MergeCookies(jar, response.setCookie.values)
    ELSE jar

-----------------------------------------------------------------------------
(* The appliance and the HTTP layer *)

NoSetCookie == [present |-> FALSE, values |-> <<>>]

SetCookie(values) == [present |-> TRUE, values |-> values]

\* the Set-Cookie headers the login endpoint may answer with for session n:
\* a bare cookie or one with attributes
LoginHeaders(n) ==
    { SetCookie(<< <<"TOKEN", "=", ToString(n)>> >>),
      SetCookie(<< <<"TOKEN", "=", ToString(n), ";", " ",
                     "Path", "=", "/">> >>) }

\* an attempt ends with no response at all (network error) or with a status
NetworkError == [hasResponse |-> FALSE, status |-> 0, setCookie |-> NoSetCookie]

Answer(status, setCookie) ==
    [hasResponse |-> TRUE, status |-> status, setCookie |-> setCookie]

FailureStatuses == {304, 401}

FailedAttempts ==
    {NetworkError} \cup { Answer(s, NoSetCookie) : s \in FailureStatuses }

\* axios rejects an attempt without a response or with a status outside 2xx
AxiosRejects(response) ==
    ~response.hasResponse \/ response.status < 200 \/ response.status >= 300

\* retryCondition: error.response == null || error.response.status >= 400
retryCondition(response) ==
    ~response.hasResponse \/ response.status >= 400

\* a retry test that allows one retry too many
ShouldRetry_OffByOne(retryCount, response) ==
    AxiosRejects(response) /\ retryCount <= retries /\ retryCondition(response)

\* axios-retry: a rejected attempt is retried while retryCount < retries
\* and the retry condition holds
ShouldRetry(retryCount, response) ==
    AxiosRejects(response) /\ retryCount < retries /\ retryCondition(response)

Idle == [kind |-> "none", attempts |-> 0, last |-> "none", jar |-> EmptyJar]

\* what the retry state records of an attempt's outcome
OutcomeOf(response) ==
    IF ~AxiosRejects(response) THEN "ok"
    ELSE IF retryCondition(response) THEN "retryable" ELSE "fatal"

-----------------------------------------------------------------------------
(* The file system *)

existsSync(fsys, name) == name \in DOMAIN fsys

Remove(fsys, name) == [n \in DOMAIN fsys \ {name} |-> fsys[n]]

\* fs.createWriteStream(name): the file is created, or truncated (by is a
\* history field: who created the file)
CreateFile(fsys, name, by) ==
    IF existsSync(fsys, name)
    THEN [fsys EXCEPT ![name] = [@ EXCEPT !.size = 0]]
    ELSE (name :> [size |-> 0, by |-> by]) @@ fsys

\* a chunk of the response body reaches the file
WriteByte(fsys, name) ==
    [fsys EXCEPT ![name] = [@ EXCEPT !.size = @ + 1]]

-----------------------------------------------------------------------------
(* The initial states: fetchVideo is called *)

\* the files that may exist before the call: the .mp4 of a window that
\* starts at the start of the range or an hour later
CandidateFiles(a) ==
    { FileName(a.cameras[i], s, e, "mp4") :
        i \in DOMAIN a.cameras,
        s \in {a.start, add(a.start, maxMinuteDiff)},
        e \in {add(a.start, maxMinuteDiff), a.end} }

\* no file, or one file that is empty (size 0) or not (size 1), written
\* before the call (by = 0)
InitialFileSystems(a) ==
    { <<>> } \cup
    { (name :> [size |-> n, by |-> 0]) :
        name \in CandidateFiles(a), n \in {0, 1} }

Arguments ==
    { [cameras |-> c, start |-> s, end |-> s + d, mp4 |-> m,
       hasCallback |-> cb] :
        c \in CameraLists, s \in StartTimes, d \in Spans, m \in Mp4Args,
        cb \in BOOLEAN }

NoCamera == [id |-> Undefined, name |-> Undefined]

\* no pair is being processed; logins, session and authJar are history
\* fields: the logins completed for the pair, the session the appliance
\* issued for it and the jar getCookies returned; writer is the write
\* stream of line 144: "none" before it is created, then "open", then
\* "finished" or "failed"
NoChunk ==
    [pair |-> 0, camera |-> NoCamera,
     url |-> ExportUrl(NoCamera, 0, 0),
     mp4Filename |-> FileName(NoCamera, 0, 0, "mp4"),
     mkvFilename |-> FileName(NoCamera, 0, 0, "mkv"),
     logins |-> 0, session |-> 0, authJar |-> EmptyJar, writer |-> "none"]

\* no earlier call took place
NoPrior ==
    [runs |-> 0, failure |-> "none", inProgress |-> 0, downloaded |-> {},
     outputFiles |-> <<>>, fs |-> <<>>]

\* the files a second call creates carry this value of `by`
PeerBy == 99

\* the skip check of the second call unlinked no file
NothingUnlinked == -1

\* no second call is at work
NoPeer == [pc |-> "none", unlinked |-> NothingUnlinked]

\* no helper is called on its own
NoProbe == [fn |-> "none"]

\* the variables of a call of fetchVideo when it is made
FirstCall ==
    /\ args \in Arguments
    /\ fs \in InitialFileSystems(args)
    /\ given = [args |-> args, fs |-> fs]
    /\ pc = "start"
    /\ outputFiles = <<>>
    /\ currentStart = args.start
    /\ currentEnd = args.start
    /\ camIdx = 0
    /\ chunk = NoChunk
    /\ cookies = EmptyJar
    /\ req = Idle
    /\ server = 0
    /\ events = <<>>
    /\ built = <<>>
    /\ netCalls = {}
    /\ received = 0
    /\ failure = "none"

Init ==
    /\ FirstCall
    /\ prior = NoPrior
    /\ peer = NoPeer
    /\ probe = NoProbe

-----------------------------------------------------------------------------
(* Status events *)

WaitingStatus == [type |-> "Waiting", detail |-> "", error |-> "none"]

\* progressPercent: percent(progressEvent.progress), or '100%' on finish
DownloadingStatus(progressPercent) ==
    [type |-> "Downloading", detail |-> progressPercent, error |-> "none"]

ThroughputStatus ==
    [type |-> "DownloadThroughput", detail |-> "", error |-> "none"]

ConvertingStatus == [type |-> "Converting", detail |-> "", error |-> "none"]

\* errorString of the Error status of a stream failure (lines 185, 193)
ErrorString(err) ==
    IF err = "StreamWriteFailure" THEN "Error writing to the file"
    ELSE "Error reading the response from the server"

ErrorStatus(err) ==
    [type |-> "Error", detail |-> ErrorString(err), error |-> err]

\* args.statusCallback?.(status); pair is a history field: the pair the
\* event was delivered for
Emit(evs, status) ==
    IF args.hasCallback
    THEN Append(evs, [pair |-> chunk.pair] @@ status)
    ELSE evs

\* error handlers that reject without reporting
ReportError_Silent(evs, err) == evs

\* the error handlers of lines 181-196 report the error before rejecting
ReportError(evs, err) == Emit(evs, ErrorStatus(err))

\* Converting reported whatever the caller asked for
ReportDownloaded_AlwaysConverting(evs) ==
    Emit(Emit(evs, ThroughputStatus), ConvertingStatus)

\* lines 337-345: the throughput is reported, and Converting when the
\* caller did not ask for mp4
ReportDownloaded(evs) ==
    IF args.mp4 = "true"
    THEN Emit(evs, ThroughputStatus)
    ELSE Emit(Emit(evs, ThroughputStatus), ConvertingStatus)

-----------------------------------------------------------------------------
(* fetchVideo *)

\* the pair the for loop is about to process (lines 282-295)
NextChunk ==
    LET camera == args.cameras[camIdx]
    IN [pair |-> Len(built) + 1,
        camera |-> camera,
        url |-> ExportUrl(camera, currentStart, currentEnd),
        mp4Filename |-> FileName(camera, currentStart, currentEnd, "mp4"),
        mkvFilename |-> FileName(camera, currentStart, currentEnd, "mkv"),
        logins |-> 0, session |-> 0, authJar |-> EmptyJar,
        writer |-> "none"]

Absent == [size |-> -1, by |-> -1]

\* what the skip check finds at the destination (lines 299-300)
Found(fsys, name) ==
    IF ~existsSync(fsys, name) THEN "absent"
    ELSE IF fsys[name].size = 0 THEN "empty" ELSE "nonempty"

\* a skip check that takes an empty file for a finished download
ShouldSkip_AnyFile(fsys, name) ==
    existsSync(fsys, name)

\* the pair is skipped: the file exists and is not empty (lines 299-307)
ShouldSkip(fsys, name) ==
    existsSync(fsys, name) /\ fsys[name].size # 0

\* a skip check that leaves an empty file in place
AfterSkipCheck_KeepEmpty(fsys, name) == fsys

\* the file system after the skip check: an empty file is unlinked
AfterSkipCheck(fsys, name) ==
    IF existsSync(fsys, name) /\ fsys[name].size = 0
    THEN Remove(fsys, name)
    ELSE fsys

\* currentStart after a pair was set up (line 297)
AdvanceStart(start) == add(start, maxMinuteDiff)

\* the history entry of a pair: its place in the loops, its window and
\* names, and what the skip check found
BuiltEntry(c) ==
    [pair |-> c.pair, camIdx |-> camIdx, url |-> c.url,
     mp4Filename |-> c.mp4Filename,
     found |-> Found(fs, c.mp4Filename),
     before |-> IF existsSync(fs, c.mp4Filename) THEN fs[c.mp4Filename]
                ELSE Absent]

\* an OutputFile record that carries the window of its own chunk
OutputRecord_ChunkWindow ==
    LET filename == IF args.mp4 = "true" THEN chunk.mp4Filename
                    ELSE chunk.mkvFilename
    IN [cameraName |-> Label(chunk.camera),
        start |-> chunk.url.start,
        end |-> chunk.url.end,
        filename |-> filename,
        pair |-> chunk.pair,
        written |-> fs'[filename]]

\* the OutputFile record pushed for the current pair (lines 351-356); pair
\* and written are history fields: the pair and the file as it was written
OutputRecord ==
    LET filename == IF args.mp4 = "true" THEN chunk.mp4Filename
                    ELSE chunk.mkvFilename
    IN [cameraName |-> Label(chunk.camera),
        start |-> args.start,
        end |-> args.end,
        filename |-> filename,
        pair |-> chunk.pair,
        written |-> fs'[filename]]

\* the jar getCookies starts the login from (line 206)
LoginStartJar == EmptyJar

\* the rejection is swallowed and the camera loop goes on
OnReject_Continue == "for"

\* where fetchVideo goes when an awaited call rejects: nothing catches it
OnReject == "rejected"

\* lines 261-265
Enter ==
    /\ pc = "start"
    /\ args' = [args EXCEPT !.mp4 = IF @ = Undefined THEN "true" ELSE @]
    /\ outputFiles' = <<>>
    /\ currentStart' = args.start
    /\ pc' = "while"
    /\ UNCHANGED <<currentEnd, camIdx, chunk, cookies, req, fs, server, events,
                   built, netCalls, received, failure, given,
                   aside>>

\* lines 271-279: the while test succeeds and the window's end is computed
NextWindow ==
    /\ pc = "while"
    /\ isBefore(currentStart, args.end)
    /\ currentEnd' = WindowEnd(currentStart, args.end)
    /\ camIdx' = 1
    /\ pc' = "for"
    /\ UNCHANGED <<args, outputFiles, currentStart, chunk, cookies, req, fs,
                   server, events, built, netCalls, received, failure, given,
                   aside>>

\* lines 271, 360: the while test fails and fetchVideo returns outputFiles
Return ==
    /\ pc = "while"
    /\ ~isBefore(currentStart, args.end)
    /\ pc' = "returned"
    /\ UNCHANGED <<args, outputFiles, currentStart, currentEnd, camIdx, chunk,
                   cookies, req, fs, server, events, built, netCalls, received,
                   failure, given,
                   aside>>

\* line 281: the camera list is exhausted
CamerasDone ==
    /\ pc = "for"
    /\ camIdx > Len(args.cameras)
    /\ pc' = "while"
    /\ UNCHANGED <<args, outputFiles, currentStart, currentEnd, camIdx, chunk,
                   cookies, req, fs, server, events, built, netCalls, received,
                   failure, given,
                   aside>>

\* lines 281-307: the next camera's pair is set up and skipped
SkipExisting ==
    /\ pc = "for"
    /\ camIdx <= Len(args.cameras)
    /\ LET c == NextChunk
       IN /\ ShouldSkip(fs, c.mp4Filename)
          /\ built' = Append(built, BuiltEntry(c))
          /\ currentStart' = AdvanceStart(currentStart)
          /\ camIdx' = camIdx + 1
    /\ UNCHANGED <<args, pc, outputFiles, currentEnd, chunk, cookies, req, fs,
                   server, events, netCalls, received, failure, given,
                   aside>>

\* lines 281-313, 205-213, 57-89: the next camera's pair is set up, an empty
\* file at the destination is unlinked, and getCookies posts the login
StartChunk ==
    /\ pc = "for"
    /\ camIdx <= Len(args.cameras)
    /\ LET c == NextChunk
       IN /\ ~ShouldSkip(fs, c.mp4Filename)
          /\ built' = Append(built, BuiltEntry(c))
          /\ currentStart' = AdvanceStart(currentStart)
          /\ fs' = AfterSkipCheck(fs, c.mp4Filename)
          /\ chunk' = c
          /\ req' = [kind |-> "login", attempts |-> 0, last |-> "none",
                     jar |-> LoginStartJar]
          /\ netCalls' = netCalls \cup {[pair |-> c.pair, kind |-> "login"]}
    /\ pc' = "login"
    /\ UNCHANGED <<args, outputFiles, currentEnd, camIdx, cookies, server,
                   events, received, failure, given,
                   aside>>

\* lines 83-89 under axios-retry: an attempt of the login POST is rejected;
\* it is tried again, or postWithCookies, getCookies and fetchVideo reject
LoginFails ==
    /\ pc = "login"
    /\ \E response \in FailedAttempts :
          /\ req' = [req EXCEPT !.attempts = @ + 1,
                                !.last = OutcomeOf(response)]
          /\ IF ShouldRetry(req.attempts, response)
             THEN UNCHANGED <<pc, failure>>
             ELSE /\ pc' = OnReject
                  /\ failure' = "AuthenticationFailure"
    /\ UNCHANGED <<args, outputFiles, currentStart, currentEnd, camIdx, chunk,
                   cookies, fs, server, events, built, netCalls, received,
                   given, aside>>

\* lines 83-102, 215, 313: an attempt of the login POST is answered 200;
\* the response's cookies are merged into a copy of the jar
LoginOk ==
    /\ pc = "login"
    /\ \E h \in LoginHeaders(server + 1) :
          LET response == Answer(200, h)
              updatedCookies == UpdatedCookies(req.jar, response)
          IN IF ShouldRetry(req.attempts, response)
             THEN /\ req' = [req EXCEPT !.attempts = @ + 1,
                                        !.last = OutcomeOf(response)]
                  /\ UNCHANGED <<pc, cookies, chunk>>
             ELSE /\ req' = Idle
                  /\ pc' = "authenticated"
                  /\ cookies' = updatedCookies
                  /\ chunk' = [chunk EXCEPT !.logins = @ + 1,
                                            !.session = server + 1,
                                            !.authJar = updatedCookies]
    /\ server' = server + 1
    /\ UNCHANGED <<args, outputFiles, currentStart, currentEnd, camIdx, fs,
                   events, built, netCalls, received, failure, given,
                   aside>>

\* the export request is sent without the jar of the login
DownloadJar_NoCookies == EmptyJar

\* the jar fetchVideo hands to getBinaryDataWithCookies (line 317)
DownloadJar == cookies

\* lines 315-320, 136-160: getBinaryDataWithCookies opens the write stream,
\* reports Waiting and issues the export GET with the jar it was given
BeginDownload ==
    /\ pc = "authenticated"
    /\ fs' = CreateFile(fs, chunk.mp4Filename, chunk.pair)
    /\ events' = Emit(events, WaitingStatus)
    /\ req' = [kind |-> "get", attempts |-> 0, last |-> "none",
               jar |-> DownloadJar]
    /\ netCalls' = netCalls \cup {[pair |-> chunk.pair, kind |-> "get"]}
    /\ chunk' = [chunk EXCEPT !.writer = "open"]
    /\ pc' = "get"
    /\ UNCHANGED <<args, outputFiles, currentStart, currentEnd, camIdx,
                   cookies, server, built, received, failure, given,
                   aside>>

\* lines 148-160 under axios-retry: an attempt of the export GET is rejected
GetFails ==
    /\ pc = "get"
    /\ \E response \in FailedAttempts :
          /\ req' = [req EXCEPT !.attempts = @ + 1,
                                !.last = OutcomeOf(response)]
          /\ IF ShouldRetry(req.attempts, response)
             THEN UNCHANGED <<pc, failure>>
             ELSE /\ pc' = OnReject
                  /\ failure' = "TransientHttpFailure"
    /\ UNCHANGED <<args, outputFiles, currentStart, currentEnd, camIdx, chunk,
                   cookies, fs, server, events, built, netCalls, received,
                   given, aside>>

\* getBinaryDataWithCookies returns as soon as the body is piped
AwaitWriter_ReturnEarly == "downloaded"

\* where the call stands once the export GET is answered: at the promise of
\* lines 173-197, which is settled by the write stream's finish or error or
\* by the response stream's error
AwaitWriter == "stream"

\* lines 148-173: the export GET is answered 200; the body is piped to the
\* write stream and the handlers of lines 174-196 are registered
GetOk ==
    /\ pc = "get"
    /\ LET response == Answer(200, NoSetCookie)
       IN IF ShouldRetry(req.attempts, response)
          THEN /\ req' = [req EXCEPT !.attempts = @ + 1,
                                     !.last = OutcomeOf(response)]
               /\ pc' = "get"
          ELSE /\ req' = Idle
               /\ pc' = AwaitWriter
    /\ UNCHANGED <<args, outputFiles, currentStart, currentEnd, camIdx, chunk,
                   cookies, fs, server, events, built, netCalls, received,
                   failure, given,
                   aside>>

\* the file the write stream has open was unlinked by a second call: what
\* is written to it no longer shows at the destination
Orphaned == chunk.pair # 0 /\ peer.unlinked = chunk.pair

\* lines 155-162: a piece of the body arrives: it is written to the file and
\* onDownloadProgress reports Downloading
Data ==
    /\ pc = "stream"
    /\ received < MaxData
    /\ received' = received + 1
    /\ fs' = IF Orphaned THEN fs ELSE WriteByte(fs, chunk.mp4Filename)
    /\ events' = Emit(events, DownloadingStatus("progress"))
    /\ UNCHANGED <<args, pc, outputFiles, currentStart, currentEnd, camIdx,
                   chunk, cookies, req, server, built, netCalls, failure,
                   given, aside>>

\* lines 174-180: the write stream finishes
WriterFinish ==
    /\ pc = "stream"
    /\ events' = Emit(events, DownloadingStatus("100%"))
    /\ chunk' = [chunk EXCEPT !.writer = "finished"]
    /\ pc' = "downloaded"
    /\ UNCHANGED <<args, outputFiles, currentStart, currentEnd, camIdx,
                   cookies, req, fs, server, built, netCalls, received,
                   failure, given,
                   aside>>

\* lines 181-188: the write stream fails
WriterError ==
    /\ pc = "stream"
    /\ events' = ReportError(events, "StreamWriteFailure")
    /\ chunk' = [chunk EXCEPT !.writer = "failed"]
    /\ pc' = OnReject
    /\ failure' = "StreamWriteFailure"
    /\ UNCHANGED <<args, outputFiles, currentStart, currentEnd, camIdx,
                   cookies, req, fs, server, built, netCalls, received, given,
                   aside>>

\* lines 189-196: the response stream fails
ResponseError ==
    /\ pc = "stream"
    /\ events' = ReportError(events, "StreamReadFailure")
    /\ pc' = OnReject
    /\ failure' = "StreamReadFailure"
    /\ UNCHANGED <<args, outputFiles, currentStart, currentEnd, camIdx, chunk,
                   cookies, req, fs, server, built, netCalls, received, given,
                   aside>>

\* lines 322-340, 351-357 with mp4: the throughput is reported and the
\* OutputFile record pushed; the for loop goes on
FinishMp4 ==
    /\ pc = "downloaded"
    /\ args.mp4 = "true"
    /\ existsSync(fs, chunk.mp4Filename)
    /\ events' = ReportDownloaded(events)
    /\ fs' = fs
    /\ outputFiles' = Append(outputFiles, OutputRecord)
    /\ camIdx' = camIdx + 1
    /\ chunk' = NoChunk
    /\ cookies' = EmptyJar
    /\ pc' = "for"
    /\ UNCHANGED <<args, currentStart, currentEnd, req, server, built,
                   netCalls, received, failure, given,
                   aside>>

\* lines 322-347 without mp4: the throughput and Converting are reported and
\* convertToMkv starts ffmpeg
StartConvert ==
    /\ pc = "downloaded"
    /\ args.mp4 # "true"
    /\ existsSync(fs, chunk.mp4Filename)
    /\ events' = ReportDownloaded(events)
    /\ pc' = "convert"
    /\ UNCHANGED <<args, outputFiles, currentStart, currentEnd, camIdx, chunk,
                   cookies, req, fs, server, built, netCalls, received,
                   failure, given,
                   aside>>

\* the file system after ffmpeg wrote the .mkv and line 348 unlinked the .mp4
AfterConvert(fsys, c) ==
    Remove((c.mkvFilename :> [fsys[c.mp4Filename] EXCEPT !.by = c.pair])
               @@ fsys,
           c.mp4Filename)

\* lines 236-239, 348-357: ffmpeg ends; the .mp4 is unlinked and the
\* OutputFile record pushed; the for loop goes on
ConvertEnd ==
    /\ pc = "convert"
    /\ existsSync(fs, chunk.mp4Filename)
    /\ fs' = AfterConvert(fs, chunk)
    /\ outputFiles' = Append(outputFiles, OutputRecord)
    /\ camIdx' = camIdx + 1
    /\ chunk' = NoChunk
    /\ cookies' = EmptyJar
    /\ pc' = "for"
    /\ UNCHANGED <<args, currentStart, currentEnd, req, server, events, built,
                   netCalls, received, failure, given,
                   aside>>

\* the .mp4 is unlinked although the remux failed
AfterConvertError_Unlink(fsys, c) == Remove(fsys, c.mp4Filename)

\* the file system after ffmpeg failed: the rejection of line 347 leaves
\* fetchVideo before line 348 is reached, so that nothing is unlinked
AfterConvertError(fsys, c) == fsys

\* lines 240-243: ffmpeg fails; convertToMkv and fetchVideo reject
ConvertError ==
    /\ pc = "convert"
    /\ fs' = AfterConvertError(fs, chunk)
    /\ pc' = OnReject
    /\ failure' = "RemuxFailure"
    /\ UNCHANGED <<args, outputFiles, currentStart, currentEnd, camIdx, chunk,
                   cookies, req, server, events, built, netCalls, received,
                   given, aside>>

Next ==
    \/ Enter
    \/ NextWindow
    \/ Return
    \/ CamerasDone
    \/ SkipExisting
    \/ StartChunk
    \/ LoginFails
    \/ LoginOk
    \/ BeginDownload
    \/ GetFails
    \/ GetOk
    \/ Data
    \/ WriterFinish
    \/ WriterError
    \/ ResponseError
    \/ FinishMp4
    \/ StartConvert
    \/ ConvertEnd
    \/ ConvertError

Spec == Init /\ [][Next]_vars

-----------------------------------------------------------------------------
(* Properties *)

Last(seq) == seq[Len(seq)]

\* the windows for which an export request was built for the camera at
\* position i of the list, in order
WindowsOf(i) ==
    LET mine == SelectSeq(built, LAMBDA b : b.camIdx = i)
    IN [k \in DOMAIN mine |-> mine[k].url]

\* C1: when fetchVideo returns for start < end and a non-empty camera
\* list, the windows built for each camera begin at start, end at end and
\* each starts where the previous one ended, so that [start, end) is
\* covered exactly once for each camera.
C1_WindowsCoverRangeOnce ==
    (pc = "returned" /\ args.start < args.end /\ args.cameras # <<>>) =>
        \A i \in DOMAIN args.cameras :
            LET w == WindowsOf(i)
            IN /\ w # <<>>
               /\ w[1].start = args.start
               /\ Last(w).end = args.end
               /\ \A k \in 1..(Len(w) - 1) : w[k + 1].start = w[k].end

\* C2: every window used to build an export url and a file name has
\* end > start and is at most 60 minutes long.
C2_WindowBounds ==
    \A k \in DOMAIN built :
        /\ built[k].url.end > built[k].url.start
        /\ built[k].url.end - built[k].url.start <= maxMinuteDiff * MsPerMinute

\* C3: the cameras are the inner loop: the pairs are reached in list order,
\* a new window starts only after the last camera of the list, and all
\* cameras of one window are processed with the same start and end.
C3_CamerasShareWindow ==
    /\ built # <<>> => built[1].camIdx = 1
    /\ \A k \in 1..(Len(built) - 1) :
          \/ /\ built[k + 1].camIdx = built[k].camIdx + 1
             /\ built[k + 1].url.start = built[k].url.start
             /\ built[k + 1].url.end = built[k].url.end
          \/ /\ built[k].camIdx = Len(args.cameras)
             /\ built[k + 1].camIdx = 1

\* the requests issued for pair k
CallsOf(k) == { c \in netCalls : c.pair = k }

\* the OutputFile records pushed for pair k
RecordsOf(k) == { i \in DOMAIN outputFiles : outputFiles[i].pair = k }

\* the status events delivered for pair k, in order
EventsOf(k) == SelectSeq(events, LAMBDA e : e.pair = k)

\* C4: skip rule.  A pair whose .mp4 exists with a non-zero size causes no
\* request, no status event and no OutputFile record, and the file stays as
\* it was.  A pair whose .mp4 exists with size zero has the file unlinked
\* and is then processed as if the file had been absent: the login is
\* posted with no file at the destination, and the download creates it.
C4_SkipRule ==
    \A k \in DOMAIN built :
        LET b == built[k]
        IN /\ b.found = "nonempty" =>
                /\ CallsOf(k) = {}
                /\ RecordsOf(k) = {}
                /\ EventsOf(k) = <<>>
                /\ existsSync(fs, b.mp4Filename)
                /\ fs[b.mp4Filename] = b.before
           /\ b.found \in {"empty", "absent"} =>
                /\ [pair |-> k, kind |-> "login"] \in netCalls
                /\ (chunk.pair = k /\ pc \in {"login", "authenticated"})
                       => ~existsSync(fs, b.mp4Filename)
                /\ (chunk.pair = k /\ pc \in {"get", "stream", "downloaded"})
                       => /\ existsSync(fs, b.mp4Filename)
                          /\ fs[b.mp4Filename].by = k

\* a run returned after it skipped a pair and downloaded another
C4_Witness ==
    /\ pc = "returned"
    /\ \E k \in DOMAIN built : built[k].found = "nonempty"
    /\ outputFiles # <<>>

\* C4, the zero-size case: a pair whose empty file was unlinked was downloaded
C4_EmptyFileCase ==
    \E k \in DOMAIN built : built[k].found = "empty" /\ RecordsOf(k) # {}

\* C5 as stated: no request is attempted more than 3 times in total.
C5_AtMostThreeAttempts == req.attempts <= 3

\* C5 as amended: a request is attempted at most 4 times in total (the first
\* attempt and 3 retries); another attempt follows only an attempt that
\* failed without a response or with a status >= 400, and only when fewer
\* than 4 attempts were made; a failure surfaced to the caller is an attempt
\* that is not retryable or the 4th failed attempt; a successful attempt is
\* never retried.
C5_RetryPolicy ==
    /\ req.attempts <= 4
    /\ (pc \in {"login", "get"} /\ req.attempts > 0) =>
           /\ req.last = "retryable"
           /\ req.attempts < 4
    /\ failure \in {"AuthenticationFailure", "TransientHttpFailure"} =>
           /\ pc = "rejected"
           /\ \/ req.last = "fatal"
              \/ req.last = "retryable" /\ req.attempts = 4
    /\ req.last # "ok"

\* the export GET was rejected after its 4th attempt
C5_Witness ==
    /\ failure = "TransientHttpFailure"
    /\ req.kind = "get"
    /\ req.attempts = 4
    /\ req.last = "retryable"

\* the export requests issued so far
GetCalls == { c \in netCalls : c.kind = "get" }

\* C6: per-chunk re-authentication.  Every login starts from an empty jar;
\* when the export GET of a pair is issued, exactly one login has completed
\* for the pair since its skip check, the jar sent is the jar that login
\* returned, and a session token in it is the one the appliance issued for
\* this pair (the latest one), never the token of an earlier pair; overall
\* the appliance has issued one session per export request.
C6_FreshJarPerChunk ==
    /\ req.kind = "login" => req.jar = EmptyJar
    /\ req.kind = "get" =>
           /\ chunk.logins = 1
           /\ req.jar = chunk.authJar
           /\ chunk.session = server
           /\ \A name \in DOMAIN req.jar :
                  req.jar[name] = <<ToString(chunk.session)>>
    /\ server = Cardinality(GetCalls) + (IF pc = "authenticated" THEN 1 ELSE 0)
    /\ \A c \in GetCalls : [pair |-> c.pair, kind |-> "login"] \in netCalls

\* the export GET of a second pair is sent with the token of its own login
C6_Witness ==
    /\ req.kind = "get"
    /\ chunk.pair = 2
    /\ server = 2
    /\ req.jar = (<<"TOKEN">> :> <<"2">>)

\* the events of a pair up to the end of its download: Waiting, then
\* Downloading events, the last of them with '100%'
DownloadEventsOk(ev) ==
    /\ Len(ev) >= 2
    /\ ev[1].type = "Waiting"
    /\ \A i \in 2..Len(ev) : ev[i].type = "Downloading"
    /\ Last(ev).detail = "100%"

\* the events of a pair that was processed: those of the download, one
\* DownloadThroughput and, when converting, one Converting
ChunkEventsOk(ev, converting) ==
    LET after == IF converting THEN 2 ELSE 1
        n == Len(ev)
    IN /\ n >= 2 + after
       /\ DownloadEventsOk(SubSeq(ev, 1, n - after))
       /\ ev[n - after + 1].type = "DownloadThroughput"
       /\ converting => ev[n].type = "Converting"

\* pair k was downloaded and processed up to its OutputFile record, or up to
\* its remux
Processed(k) ==
    \/ RecordsOf(k) # {}
    \/ chunk.pair = k /\ (pc = "convert" \/ failure = "RemuxFailure")

\* C7: status ordering.  With a callback, the events of every pair whose
\* download completed are one Waiting (delivered when the export GET is
\* issued), Downloading events ending with '100%', one DownloadThroughput
\* and one Converting exactly when mp4 is false; the events of different
\* pairs are not interleaved, and a skipped pair has no event.
C7_StatusOrder ==
    args.hasCallback =>
        /\ \A k \in DOMAIN built :
              /\ Processed(k) =>
                     ChunkEventsOk(EventsOf(k), given.args.mp4 = "false")
              /\ (chunk.pair = k /\ pc = "downloaded") =>
                     DownloadEventsOk(EventsOf(k))
              /\ [pair |-> k, kind |-> "get"] \in netCalls =>
                     /\ EventsOf(k) # <<>>
                     /\ EventsOf(k)[1].type = "Waiting"
              /\ built[k].found = "nonempty" => EventsOf(k) = <<>>
        /\ \A i \in DOMAIN events :
              /\ events[i].pair \in DOMAIN built
              /\ \A j \in DOMAIN events :
                    i < j => events[i].pair <= events[j].pair

\* two pairs were downloaded and converted, one of them with a progress tick
C7_Witness ==
    /\ args.hasCallback
    /\ given.args.mp4 = "false"
    /\ pc = "returned"
    /\ Len(outputFiles) = 2
    /\ \E i \in DOMAIN events : events[i].detail = "progress"

\* the pairs that were not skipped, in processing order
NotSkipped == SelectSeq(built, LAMBDA b : b.found # "nonempty")

\* the number of DownloadThroughput events delivered
Throughputs ==
    Cardinality({ i \in DOMAIN events : events[i].type = "DownloadThroughput" })

C9_ErrorEventBeforeRejection ==
    (failure # "none" /\ args.hasCallback) =>
        /\ events # <<>>
        /\ Last(events).type = "Error"

StreamFailures == {"StreamWriteFailure", "StreamReadFailure"}

\* C9 as amended: whenever fetchVideo rejects because of a stream write
\* failure or a stream read failure and a callback was supplied, the last
\* event delivered is an Error event of the failing pair that carries the
\* underlying error and its message.
C9_ErrorEventOnStreamFailure ==
    (failure \in StreamFailures /\ args.hasCallback) =>
        /\ events # <<>>
        /\ Last(events).type = "Error"
        /\ Last(events).error = failure
        /\ Last(events).detail = ErrorString(failure)
        /\ Last(events).pair = chunk.pair

\* the response stream of a second pair failed
C9_Witness ==
    /\ failure = "StreamReadFailure"
    /\ args.hasCallback
    /\ pc = "rejected"
    /\ chunk.pair = 2

\* every file recorded in outputFiles exists as it was written
OutputsIntact ==
    \A i \in DOMAIN outputFiles :
        /\ existsSync(fs, outputFiles[i].filename)
        /\ fs[outputFiles[i].filename] = outputFiles[i].written

\* C10: abort on fatal failure.  A failure makes fetchVideo reject, after
\* which it takes no step at all: no login, export request, remux, file
\* deletion or status event for a later pair; and the files of the chunks
\* completed before still exist as they were written.
C10_AbortOnFailure ==
    /\ [](failure # "none" => pc = "rejected" /\ OutputsIntact)
    /\ [][failure = "none"]_vars

\* a run was rejected after it completed a chunk and before its last pair
C10_Witness ==
    /\ failure # "none"
    /\ outputFiles # <<>>
    /\ isBefore(currentStart, args.end)

\* the .mp4 files at the destination that this call downloaded
DownloadedMp4s(fsys) ==
    { n \in DOMAIN fsys : n.ext = "mp4" /\ fsys[n].by # 0 }

\* the .mp4 sibling of an output file
Mp4Of(filename) == [filename EXCEPT !.ext = "mp4"]

\* C11: remux safety.  A downloaded .mp4 disappears only in the step in
\* which the remux of its chunk ends with success, and the .mkv sibling
\* exists from that step on; a remux is started only when mp4 is false, so
\* that with mp4 = true no downloaded .mp4 is ever deleted.  When the remux
\* fails, the failing step leaves the file system as it was, fetchVideo
\* rejects and the .mp4 of the chunk exists.  Every chunk completed with
\* mp4 = false has its .mkv and no .mp4.
C11_RemuxSafety ==
    /\ [][ /\ \A n \in DownloadedMp4s(fs) :
                 ~existsSync(fs', n) =>
                     /\ pc = "convert"
                     /\ failure' = "none"
                     /\ n = chunk.mp4Filename
                     /\ existsSync(fs', chunk.mkvFilename)
                     /\ fs'[chunk.mkvFilename].size = fs[n].size
           /\ failure' = "RemuxFailure" =>
                 /\ pc = "convert"
                 /\ fs' = fs ]_vars
    /\ [] /\ pc = "convert" =>
                 /\ args.mp4 = "false"
                 /\ chunk.mp4Filename \in DownloadedMp4s(fs)
          /\ failure = "RemuxFailure" =>
                 /\ pc = "rejected"
                 /\ chunk.mp4Filename \in DownloadedMp4s(fs)
                 /\ fs[chunk.mp4Filename].by = chunk.pair
          /\ \A i \in DOMAIN outputFiles :
                 LET r == outputFiles[i]
                 IN IF args.mp4 = "false"
                    THEN /\ r.filename.ext = "mkv"
                         /\ existsSync(fs, r.filename)
                         /\ ~existsSync(fs, Mp4Of(r.filename))
                    ELSE /\ r.filename.ext = "mp4"
                         /\ r.filename \in DownloadedMp4s(fs)

\* the remux of a second chunk failed after the first chunk was converted
C11_Witness ==
    /\ failure = "RemuxFailure"
    /\ Len(outputFiles) = 1
    /\ existsSync(fs, outputFiles[1].filename)
    /\ existsSync(fs, chunk.mp4Filename)

-----------------------------------------------------------------------------
(* The cookie merge of postWithCookies and getBinaryDataWithCookies, called  *)
(* on its own with a jar and a response                                      *)

\* at most this many Set-Cookie header values in one response
MaxHeaders == 2

\* the jars a caller may pass
Jars ==
    { EmptyJar,
      <<"a">> :> <<"1">>,
      <<"b">> :> <<"2">>,
      (<<"a">> :> <<"1">>) @@ (<<"b">> :> <<"2">>) }

\* Set-Cookie header values: "a=1", "a=2", "b=1", " a = 1 ", "a=1; Path=/",
\* "a", "a=" and "a=1=2"
HeaderValues ==
    { <<"a", "=", "1">>,
      <<"a", "=", "2">>,
      <<"b", "=", "1">>,
      <<" ", "a", " ", "=", " ", "1", " ">>,
      <<"a", "=", "1", ";", " ", "Path", "=", "/">>,
      <<"a">>,
      <<"a", "=">>,
      <<"a", "=", "1", "=", "2">> }

\* the responses: without a Set-Cookie header, or with up to MaxHeaders values
MergeResponses ==
    { Answer(200, NoSetCookie) } \cup
    { Answer(200, SetCookie(values)) :
        values \in UNION { [1..n -> HeaderValues] : n \in 0..MaxHeaders } }

\* the variables of fetchVideo while no call of it is under way
NoCall ==
    /\ args = [cameras |-> <<>>, start |-> 0, end |-> 0, mp4 |-> Undefined,
               hasCallback |-> FALSE]
    /\ fs = <<>>
    /\ given = [args |-> args, fs |-> fs]
    /\ pc = "none"
    /\ outputFiles = <<>>
    /\ currentStart = 0
    /\ currentEnd = 0
    /\ camIdx = 0
    /\ chunk = NoChunk
    /\ cookies = EmptyJar
    /\ req = Idle
    /\ server = 0
    /\ events = <<>>
    /\ built = <<>>
    /\ netCalls = {}
    /\ received = 0
    /\ failure = "none"
    /\ prior = NoPrior
    /\ peer = NoPeer

\* a response reaches postWithCookies (line 91) or getBinaryDataWithCookies
\* (line 162) for a request sent with the jar `cookies`; input and first are
\* history fields: the caller's jar as it was passed, and the jar the first
\* of two calls returned
InitMerge ==
    /\ NoCall
    /\ \E fn \in {"postWithCookies", "getBinaryDataWithCookies"},
          jar \in Jars, response \in MergeResponses :
          probe = [fn |-> fn, calls |-> 1, cookies |-> jar,
                   response |-> response, returned |-> FALSE,
                   updatedCookies |-> EmptyJar, input |-> jar,
                   first |-> EmptyJar]

\* the caller's jar after the merge: const updatedCookies = { ...cookies }
\* copies it, and only the copy is written to
CallerJarAfter(jar, response) == jar

\* lines 91-102: postWithCookies merges the response's cookies and returns
PostReturns ==
    /\ probe.fn = "postWithCookies"
    /\ ~probe.returned
    /\ probe' = [probe EXCEPT
                    !.returned = TRUE,
                    !.updatedCookies = UpdatedCookies(probe.cookies,
                                                      probe.response),
                    !.cookies = CallerJarAfter(probe.cookies, probe.response)]
    /\ UNCHANGED <<args, pc, outputFiles, currentStart, currentEnd, camIdx,
                   chunk, cookies, req, fs, server, events, built, netCalls,
                   received, failure, given, prior, peer>>

\* lines 164-179: getBinaryDataWithCookies merges the response's cookies and
\* returns them when the write stream has finished
GetReturns ==
    /\ probe.fn = "getBinaryDataWithCookies"
    /\ ~probe.returned
    /\ probe' = [probe EXCEPT
                    !.returned = TRUE,
                    !.updatedCookies = UpdatedCookies(probe.cookies,
                                                      probe.response),
                    !.cookies = CallerJarAfter(probe.cookies, probe.response)]
    /\ UNCHANGED <<args, pc, outputFiles, currentStart, currentEnd, camIdx,
                   chunk, cookies, req, fs, server, events, built, netCalls,
                   received, failure, given, prior, peer>>

\* the caller sends a second request with the jar it got back, and the
\* appliance answers with the same headers
MergeAgain ==
    /\ probe.fn \in {"postWithCookies", "getBinaryDataWithCookies"}
    /\ probe.calls = 1
    /\ probe.returned
    /\ probe' = [probe EXCEPT !.calls = 2,
                              !.returned = FALSE,
                              !.cookies = probe.updatedCookies,
                              !.input = probe.updatedCookies,
                              !.first = probe.updatedCookies,
                              !.updatedCookies = EmptyJar]
    /\ UNCHANGED <<args, pc, outputFiles, currentStart, currentEnd, camIdx,
                   chunk, cookies, req, fs, server, events, built, netCalls,
                   received, failure, given, prior, peer>>

NextMerge ==
    \/ PostReturns
    \/ GetReturns
    \/ MergeAgain

SpecMerge == InitMerge /\ [][NextMerge]_vars

\* the header value carries a ';' attribute
HasAttribute(h) == \E i \in DOMAIN h : h[i] = ";"

\* the header value has a '=' that separates a name from a value
HasValue(h) == \E i \in DOMAIN h : h[i] = "="

\* the position of the first '=' of a header value
FirstEquals(h) ==
    CHOOSE i \in DOMAIN h : h[i] = "=" /\ \A j \in 1..(i - 1) : h[j] # "="

\* the cookie name of a header value: what stands before the first '='
NameOf(h) == Trim(SubSeq(h, 1, FirstEquals(h) - 1))

\* the cookie value of a header value: what stands after the first '='
ValueOf(h) == Trim(SubSeq(h, FirstEquals(h) + 1, Len(h)))

\* the positions of the header values that set cookie `name`
SettersOf(name, values) ==
    { i \in DOMAIN values :
        /\ ~HasAttribute(values[i])
        /\ HasValue(values[i])
        /\ NameOf(values[i]) = name }

Max(S) == CHOOSE x \in S : \A y \in S : y <= x

\* the jar C12 describes: the entries of the input jar plus name -> value
\* for each header value without a ';' attribute (the last one wins for a
\* name set more than once), and nothing else
ExpectedJar(jar, values) ==
    LET accepted == { i \in DOMAIN values :
                        ~HasAttribute(values[i]) /\ HasValue(values[i]) }
        names == DOMAIN jar \cup { NameOf(values[i]) : i \in accepted }
    IN [n \in names |->
           IF SettersOf(n, values) # {}
           THEN ValueOf(values[Max(SettersOf(n, values))])
           ELSE jar[n]]

\* C12: cookie merge.  The jar a call returns holds the entries of the
\* input jar plus name -> value for each header value without a ';'
\* attribute, and nothing else; a response without a Set-Cookie header or
\* with only attribute-bearing values returns a jar equal to the input;
\* merging the same headers into the result again returns the same jar; the
\* caller's jar is not changed by the call.
C12_CookieMerge ==
    probe.fn \in {"postWithCookies", "getBinaryDataWithCookies"} =>
        /\ probe.cookies = probe.input
        /\ probe.returned =>
              LET values == probe.response.setCookie.values
              IN /\ probe.updatedCookies = ExpectedJar(probe.input, values)
                 /\ (\A i \in DOMAIN values : HasAttribute(values[i]))
                        => probe.updatedCookies = probe.input
                 /\ probe.calls = 2 => probe.updatedCookies = probe.first

-----------------------------------------------------------------------------
(* fetchVideo called a second time with the same arguments in the same       *)
(* directory, after the first call returned or rejected                      *)

\* the first call: one camera, one or two windows, no status callback and
\* an empty directory
RerunArguments ==
    { a \in Arguments :
        /\ Len(a.cameras) = 1
        /\ a.end - a.start \in {60 * MsPerMinute, 90 * MsPerMinute}
        /\ ~a.hasCallback }

InitRerun ==
    /\ Init
    /\ args \in RerunArguments
    /\ fs = <<>>

\* what the first call left: how it ended, the pair it was processing when
\* it rejected, the pairs whose download had finished, its records and the
\* directory
PriorRun ==
    [runs |-> 1,
     failure |-> failure,
     inProgress |-> IF failure = "none" THEN 0 ELSE chunk.pair,
     downloaded |->
         { outputFiles[i].pair : i \in DOMAIN outputFiles } \cup
         (IF failure = "RemuxFailure" THEN {chunk.pair} ELSE {}),
     outputFiles |-> outputFiles,
     fs |-> fs]

\* the caller calls fetchVideo again with the same arguments: the locals of
\* lines 261-265 are new, the directory is as the first call left it
CallAgain ==
    /\ pc \in {"returned", "rejected"}
    /\ prior.runs = 0
    /\ prior' = PriorRun
    /\ args' = given.args
    /\ given' = [args |-> given.args, fs |-> fs]
    /\ pc' = "start"
    /\ outputFiles' = <<>>
    /\ currentStart' = given.args.start
    /\ currentEnd' = given.args.start
    /\ camIdx' = 0
    /\ chunk' = NoChunk
    /\ cookies' = EmptyJar
    /\ req' = Idle
    /\ events' = <<>>
    /\ built' = <<>>
    /\ netCalls' = {}
    /\ received' = 0
    /\ failure' = "none"
    /\ UNCHANGED <<fs, server, peer, probe>>

NextRerun ==
    \/ Next
    \/ CallAgain

SpecRerun == InitRerun /\ [][NextRerun]_vars

\* C13: re-run re-attempts the remainder.  When the first call rejected and
\* a second call with the same arguments in the same directory returns, the
\* second call has posted the login and issued the export request of every
\* pair whose download had not finished in the first call, the pair that
\* was in progress at the failure among them.
C13_RerunAttemptsRemainder ==
    (prior.runs = 1 /\ prior.failure # "none" /\ pc = "returned") =>
        \A k \in DOMAIN built :
            k \notin prior.downloaded =>
                /\ [pair |-> k, kind |-> "login"] \in netCalls
                /\ [pair |-> k, kind |-> "get"] \in netCalls

\* the second call returned after the first was rejected for a stream
\* failure in the middle of a transfer
C13_Witness ==
    /\ prior.runs = 1
    /\ prior.failure \in StreamFailures
    /\ pc = "returned"
    /\ prior.inProgress \in DOMAIN built
    /\ built[prior.inProgress].found = "nonempty"

\* C14: re-run skips completed work.  For every pair the first call
\* completed, a second call with the same arguments in the same directory
\* makes no request, and the output file of the pair (.mp4 with mp4 = true,
\* .mkv with mp4 = false) stays as the first call left it.
C14_RerunSkipsCompleted ==
    prior.runs = 1 =>
        \A i \in DOMAIN prior.outputFiles :
            LET r == prior.outputFiles[i]
            IN /\ CallsOf(r.pair) = {}
               /\ existsSync(fs, r.filename)
               /\ fs[r.filename] = prior.fs[r.filename]

\* the first call completed a pair and the second call reached it
C14_Witness ==
    /\ prior.runs = 1
    /\ prior.outputFiles # <<>>
    /\ built # <<>>

-----------------------------------------------------------------------------
(* Termination *)

\* every login, export transfer, file operation and remux ends in finite
\* time, and the JavaScript event loop runs the code that waits for it: a
\* step that is possible is eventually taken
SpecFair == Init /\ [][Next]_vars /\ WF_vars(Next)

\* fetchVideo has returned outputFiles or has rejected
Done == pc \in {"returned", "rejected"}

\* C15: termination.  For every start, end and camera list, fetchVideo
\* eventually returns or rejects; when start >= end it returns an empty
\* list, having made no request and touched no file.
C15_Termination ==
    /\ <>Done
    /\ [](given.args.start >= given.args.end =>
              /\ pc \in {"start", "while", "returned"}
              /\ outputFiles = <<>>
              /\ netCalls = {}
              /\ fs = given.fs)

\* C15 for the runs it holds for: a call with at least one camera, or with
\* start >= end, eventually returns or rejects
C15_TerminationWithCameras ==
    (given.args.cameras # <<>> \/ given.args.start >= given.args.end)
        ~> Done

\* a call with an empty camera list and start < end is back at the while
\* test after a pass through the for loop that processed no pair
C15_Witness ==
    /\ given.args.cameras = <<>>
    /\ isBefore(given.args.start, given.args.end)
    /\ pc = "while"
    /\ camIdx = 1
    /\ currentStart = given.args.start

-----------------------------------------------------------------------------
(* One chunk at a time *)

\* the login POST is in flight
LoginInFlight == req.kind = "login" /\ failure = "none"

\* the export transfer is in flight: its GET, or its write stream
TransferInFlight ==
    (req.kind = "get" \/ chunk.writer = "open") /\ failure = "none"

\* ffmpeg is running
RemuxInFlight == pc = "convert"

\* pair k was completed: it was authenticated and downloaded, its record
\* was pushed and its files are final
Completed(k) ==
    /\ [pair |-> k, kind |-> "login"] \in netCalls
    /\ [pair |-> k, kind |-> "get"] \in netCalls
    /\ \E i \in RecordsOf(k) :
          /\ existsSync(fs, outputFiles[i].filename)
          /\ args.mp4 = "false" =>
                 ~existsSync(fs, Mp4Of(outputFiles[i].filename))
    /\ args.hasCallback =>
           ChunkEventsOk(EventsOf(k), given.args.mp4 = "false")

\* C16: one chunk at a time.  At most one of the login request, the export
\* transfer with its write stream and the remux is in flight; the remux
\* and the record of a pair come only after its write stream finished; and
\* when the loops reach the next pair (its skip check), nothing is in
\* flight and every earlier pair was skipped or completed: authenticated,
\* downloaded, remuxed and its .mp4 unlinked when mp4 is false.
C16_OneChunkAtATime ==
    /\ [] /\ ~(LoginInFlight /\ TransferInFlight)
          /\ ~(LoginInFlight /\ RemuxInFlight)
          /\ ~(TransferInFlight /\ RemuxInFlight)
          /\ LoginInFlight => pc = "login"
          /\ TransferInFlight => pc \in {"get", "stream"}
          /\ pc \in {"downloaded", "convert"} => chunk.writer = "finished"
          /\ chunk.pair \in {0, Len(built)}
          /\ \A k \in 1..(Len(built) - 1) :
                built[k].found = "nonempty" \/ Completed(k)
    /\ [][ /\ built' # built =>
                 /\ ~LoginInFlight /\ ~TransferInFlight /\ ~RemuxInFlight
                 /\ chunk = NoChunk
                 /\ req = Idle
           /\ outputFiles' # outputFiles =>
                 /\ chunk.writer = "finished"
                 /\ chunk.logins = 1 ]_vars

\* the skip check of a third pair was reached after the first pair was
\* downloaded and remuxed and the second was skipped
C16_Witness ==
    /\ Len(built) = 3
    /\ given.args.mp4 = "false"
    /\ RecordsOf(1) # {}
    /\ built[2].found = "nonempty"
    /\ pc = "login"

-----------------------------------------------------------------------------
(* Two calls of fetchVideo with the same arguments at work in the same       *)
(* directory.  The second call is followed through its first pair, up to     *)
(* the moment its export request is in flight; its login succeeds.           *)

\* the first call: one camera and one window of 60 minutes
TwoCallArguments ==
    { a \in Arguments :
        /\ Len(a.cameras) = 1
        /\ a.end - a.start = 60 * MsPerMinute }

\* the second call is about to start; unlinked is a history field: the
\* `by` of the file its skip check unlinked, NothingUnlinked if none
InitTwo ==
    /\ FirstCall
    /\ args \in TwoCallArguments
    /\ prior = NoPrior
    /\ peer = [pc |-> "start", unlinked |-> NothingUnlinked]
    /\ probe = NoProbe

\* the .mp4 of the first pair of the second call (lines 288-294)
PeerFile ==
    FileName(given.args.cameras[1], given.args.start,
             WindowEnd(given.args.start, given.args.end), "mp4")

\* lines 299-307 in the second call: the file exists and is not empty, the
\* pair is skipped
PeerSkipExisting ==
    /\ peer.pc = "start"
    /\ ShouldSkip(fs, PeerFile)
    /\ peer' = [peer EXCEPT !.pc = "skipped"]
    /\ UNCHANGED <<args, pc, outputFiles, currentStart, currentEnd, camIdx,
                   chunk, cookies, req, fs, server, events, built, netCalls,
                   received, failure, given, prior, probe>>

\* lines 299-313 in the second call: the skip check passes, an empty file
\* at the destination is unlinked, and the login is posted
PeerStartChunk ==
    /\ peer.pc = "start"
    /\ ~ShouldSkip(fs, PeerFile)
    /\ fs' = AfterSkipCheck(fs, PeerFile)
    /\ peer' = [pc |-> "login",
                unlinked |-> IF existsSync(fs, PeerFile)
                             THEN fs[PeerFile].by
                             ELSE NothingUnlinked]
    /\ UNCHANGED <<args, pc, outputFiles, currentStart, currentEnd, camIdx,
                   chunk, cookies, req, server, events, built, netCalls,
                   received, failure, given, prior, probe>>

\* lines 313-320, 144-160 in the second call: the login returned; the write
\* stream is opened on the destination and the export GET is issued
PeerBeginDownload ==
    /\ peer.pc = "login"
    /\ fs' = CreateFile(fs, PeerFile, PeerBy)
    /\ peer' = [peer EXCEPT !.pc = "get"]
    /\ UNCHANGED <<args, pc, outputFiles, currentStart, currentEnd, camIdx,
                   chunk, cookies, req, server, events, built, netCalls,
                   received, failure, given, prior, probe>>

\* line 324 in the first call: the destination is gone and fs.statSync
\* throws; fetchVideo rejects
StatFails ==
    /\ pc = "downloaded"
    /\ ~existsSync(fs, chunk.mp4Filename)
    /\ pc' = OnReject
    /\ failure' = "FileSystemFailure"
    /\ UNCHANGED <<args, outputFiles, currentStart, currentEnd, camIdx, chunk,
                   cookies, req, fs, server, events, built, netCalls, received,
                   given, aside>>

\* lines 236-239, 348 in the first call: ffmpeg ends, but the .mp4 is gone
\* and fs.unlinkSync throws; fetchVideo rejects
UnlinkFails ==
    /\ pc = "convert"
    /\ ~existsSync(fs, chunk.mp4Filename)
    /\ fs' = (chunk.mkvFilename :> [size |-> 0, by |-> chunk.pair]) @@ fs
    /\ pc' = OnReject
    /\ failure' = "FileSystemFailure"
    /\ UNCHANGED <<args, outputFiles, currentStart, currentEnd, camIdx, chunk,
                   cookies, req, server, events, built, netCalls, received,
                   given, aside>>

NextTwo ==
    \/ Next
    \/ PeerSkipExisting
    \/ PeerStartChunk
    \/ PeerBeginDownload
    \/ StatFails
    \/ UnlinkFails

SpecTwo == InitTwo /\ [][NextTwo]_vars

\* the first call is about to run the skip check of the pair of the second
AtSkipCheck ==
    /\ pc = "for"
    /\ camIdx <= Len(args.cameras)
    /\ NextChunk.mp4Filename = PeerFile

\* the first call passed the skip check of the pair and did not end
PastSkipCheck ==
    /\ pc \in {"login", "authenticated", "get", "stream"}
    /\ chunk.mp4Filename = PeerFile

\* C17: the skip check is advisory.  A call that passed the skip check of a
\* pair holds no reservation on the file: while the file is absent or
\* empty, the other call passes the check of the same pair too, whether the
\* first has not yet created the file or is downloading to it; and when the
\* check finds the empty file the other call created for its download, it
\* unlinks it.
C17_SkipCheckIsAdvisory ==
    /\ [] /\ ( /\ AtSkipCheck
               /\ peer.pc \in {"login", "get"}
               /\ Found(fs, PeerFile) # "nonempty" ) => ENABLED StartChunk
          /\ ( /\ PastSkipCheck
               /\ peer.pc = "start"
               /\ Found(fs, PeerFile) # "nonempty" ) => ENABLED PeerStartChunk
    /\ [][ ( /\ PastSkipCheck
             /\ peer.pc = "start"
             /\ peer'.pc = "login"
             /\ existsSync(fs, PeerFile) ) =>
                 /\ ~existsSync(fs', PeerFile)
                 /\ peer'.unlinked = fs[PeerFile].by ]_vars

\* both calls passed the skip check of the same pair and both are
\* downloading to the same file name, after the second call unlinked the
\* empty file the first had created for its download
C17_Witness ==
    /\ PastSkipCheck
    /\ pc \in {"get", "stream"}
    /\ peer.pc = "get"
    /\ peer.unlinked = chunk.pair
    /\ existsSync(fs, PeerFile)

-----------------------------------------------------------------------------
(* The throughput report of lines 322-340, on its own: the download of a     *)
(* chunk that began at downloadStart has just finished.  A JavaScript        *)
(* number is a ratio num/den, Infinity or NaN.                               *)

\* the 1000000 of lines 329 and 330
BytesPerMB == 1000000

Number(num, den) == [kind |-> "finite", num |-> num, den |-> den]

Infinity == [kind |-> "Infinity", num |-> 0, den |-> 0]

NaN == [kind |-> "NaN", num |-> 0, den |-> 0]

\* a / b for a >= 0 and b >= 0: n/0 is Infinity and 0/0 is NaN
Divide(a, b) ==
    IF b # 0 THEN Number(a, b)
    ELSE IF a = 0 THEN NaN ELSE Infinity

\* x / n for n > 0
DivideBy(x, n) ==
    IF x.kind = "finite" THEN Number(x.num, x.den * n) ELSE x

\* x > n: false for NaN
GreaterThan(x, n) ==
    \/ x.kind = "Infinity"
    \/ x.kind = "finite" /\ x.num > n * x.den

\* Math.round(x) for x >= 0: the nearest integer, a half rounded up;
\* Infinity and NaN are returned as they are
MathRound(x) ==
    IF x.kind = "finite"
    THEN Number((2 * x.num + x.den) \div (2 * x.den), 1)
    ELSE x

\* differenceInSeconds(left, right): whole seconds, truncated toward zero
differenceInSeconds(left, right) == Trunc(left - right, MsPerSecond)

\* a threshold test that takes 1000000 bytes/second for megabytes
InMegabytes_AtLeast(throughput) ==
    \/ throughput.kind = "Infinity"
    \/ throughput.kind = "finite"
           /\ throughput.num >= BytesPerMB * throughput.den

\* line 329: throughput > 1000000
InMegabytes(throughput) == GreaterThan(throughput, BytesPerMB)

\* lines 327-333: the template strings, as the number and the unit
ThroughputString(throughput) ==
    IF InMegabytes(throughput)
    THEN [number |-> MathRound(DivideBy(throughput, BytesPerMB)),
          unit |-> "MB"]
    ELSE [number |-> MathRound(throughput), unit |-> "B"]

\* the sizes of the downloaded file, in bytes
Sizes ==
    { 0, 1, 2, 3, 499999, 500000, 999999, 1000000, 1000001, 1499999,
      1500000, 1500001, 2000000, 2000001, 2999999, 3000000, 3000001,
      4500000 }

\* the time the chunk took, in milliseconds
Elapsed == { 0, 999, 1000, 1999, 2000, 3000 }

\* line 322 is reached: the file has `size` bytes
InitThroughput ==
    /\ NoCall
    /\ \E size \in Sizes, start \in StartTimes, ms \in Elapsed :
          probe = [fn |-> "throughput", size |-> size,
                   downloadStart |-> start, downloadEnd |-> start + ms,
                   reported |-> FALSE,
                   throughputString |-> [number |-> NaN, unit |-> ""]]

\* lines 322-340: the throughput is computed and reported
ReportThroughput ==
    /\ probe.fn = "throughput"
    /\ ~probe.reported
    /\ LET diffInSeconds ==
               differenceInSeconds(probe.downloadEnd, probe.downloadStart)
           throughput == Divide(probe.size, diffInSeconds)
       IN probe' = [probe EXCEPT
                       !.reported = TRUE,
                       !.throughputString = ThroughputString(throughput)]
    /\ UNCHANGED <<args, pc, outputFiles, currentStart, currentEnd, camIdx,
                   chunk, cookies, req, fs, server, events, built, netCalls,
                   received, failure, given, prior, peer>>

NextThroughput == ReportThroughput

SpecThroughput == InitThroughput /\ [][NextThroughput]_vars

\* the whole seconds between two times, counted without a division
WholeSeconds(from, to) ==
    CHOOSE n \in 0..(to - from) :
        n * MsPerSecond <= to - from /\ to - from < (n + 1) * MsPerSecond

\* n is an integer nearest to a / b
Nearest(n, a, b) ==
    /\ 2 * (n * b - a) <= b
    /\ 2 * (a - n * b) <= b

\* C18: throughput formatting boundary.  With the throughput taken as
\* bytes per whole second elapsed, the string is the throughput divided by
\* 1,000,000 and rounded to the nearest integer, followed by ' MB', exactly
\* when the throughput is strictly greater than 1,000,000; otherwise it is
\* the throughput rounded to the nearest integer, followed by ' B'.
\* 1,000,000 bytes in one second give "1000000 B" and 1,000,001 give
\* "1 MB".  When no whole second elapsed the throughput is not a number
\* (see C19) and the same rule applies to it: Infinity is greater than
\* 1,000,000 and NaN is not.
C18_ThroughputFormat ==
    (probe.fn = "throughput" /\ probe.reported) =>
        LET secs == WholeSeconds(probe.downloadStart, probe.downloadEnd)
            str == probe.throughputString
        IN /\ secs > 0 =>
                 /\ str.unit = "MB" <=> probe.size > BytesPerMB * secs
                 /\ str.unit \in {"MB", "B"}
                 /\ str.number.kind = "finite"
                 /\ str.number.den = 1
                 /\ str.unit = "MB" =>
                        Nearest(str.number.num, probe.size, BytesPerMB * secs)
                 /\ str.unit = "B" =>
                        Nearest(str.number.num, probe.size, secs)
           /\ (secs = 0 /\ probe.size > 0) =>
                  str = [number |-> Infinity, unit |-> "MB"]
           /\ (secs = 0 /\ probe.size = 0) =>
                  str = [number |-> NaN, unit |-> "B"]
           /\ (secs = 1 /\ probe.size = 1000000) =>
                  str = [number |-> Number(1000000, 1), unit |-> "B"]
           /\ (secs = 1 /\ probe.size = 1000001) =>
                  str = [number |-> Number(1, 1), unit |-> "MB"]

\* 1,000,001 bytes in one second were reported as "1 MB"
C18_Witness ==
    /\ probe.fn = "throughput"
    /\ probe.reported
    /\ probe.size = 1000001
    /\ probe.downloadEnd - probe.downloadStart = 1000
    /\ probe.throughputString = [number |-> Number(1, 1), unit |-> "MB"]

\* C19: whatever the size of the file and the time elapsed, less than one
\* whole second included, the throughput string is a finite non-negative
\* integer followed by ' B' or ' MB': never 'Infinity MB' or 'NaN B'.
C19_ThroughputStringIsANumber ==
    (probe.fn = "throughput" /\ probe.reported) =>
        /\ probe.throughputString.unit \in {"B", "MB"}
        /\ probe.throughputString.number.kind = "finite"
        /\ probe.throughputString.number.den = 1
        /\ probe.throughputString.number.num >= 0

\* a download that took less than one second was reported
C19_Witness ==
    /\ probe.fn = "throughput"
    /\ probe.reported
    /\ probe.downloadEnd - probe.downloadStart < MsPerSecond

====
